---- MODULE Spec2Model ----
(***************************************************************************)
(* Model of pika/channel.py: the per-channel frame reassembler, the reply  *)
(* correlator / async router, the channel lifecycle and the Channel facade.*)
(* One channel, one cooperative control flow.  The Python call stack of    *)
(* blocked wait_for_reply calls and running consumer callbacks is the      *)
(* variable stack; an exception unwinds the whole stack.                   *)
(***************************************************************************)
EXTENDS Integers, Sequences, FiniteSets, TLC

\* ------------------------------------------------------------------ bounds
MaxBodySize == 2      \* largest body_size a header frame declares
MaxFrags == 2         \* body frames one body handler is fed
MaxDepth == 3         \* nested frames on the call stack
MaxTag == 1           \* synthesized consumer tags in one behaviour
MaxCalls == 11        \* basic_consume calls without a tag, where tags are all that is checked

\* ------------------------------------------------------------------ values
Digit == <<"0", "1", "2", "3", "4", "5", "6", "7", "8", "9">>

RECURSIVE str(_)
\* Python str(n) for n >= 0, as a sequence of characters
str(n) == IF n < 10 THEN <<Digit[n + 1]>> ELSE str(n \div 10) \o <<Digit[(n % 10) + 1]>>

NoTag == <<>>

UserTag == <<"t">>

Tags == {<<"c", "t", "a", "g">> \o str(n) : n \in 0..(MaxTag - 1)} \cup {UserTag}

Codes == {0, 320}

\* a method object: its class (kind), the fields the channel reads, and who built it
Method(kind, tag, code, origin) == [kind |-> kind, consumer_tag |-> tag, reply_code |-> code, origin |-> origin]

NoMethod == Method("None", NoTag, 0, "")

Kinds == {"Channel.CloseOk", "Basic.ConsumeOk", "Basic.CancelOk", "Basic.GetOk", "Basic.GetEmpty",
          "Channel.Close", "Basic.Deliver", "Basic.Return", "Channel.Flow", "Channel.OpenOk"}

\* the reply kinds a caller of handler._rpc other than the facade waits for
GenericKinds == {"Basic.GetOk", "Basic.GetEmpty", "Channel.Flow"}

NOT_IMPLEMENTED == 540

\* spec.has_content(INDEX): the content-bearing method classes received by a client
has_content(kind) == kind \in {"Basic.Deliver", "Basic.Return", "Basic.GetOk"}

\* Channel.__init__ wires these handlers into handler.async_map
async_map == {"Channel.Close", "Basic.Deliver", "Basic.Return", "Channel.Flow"}

InboundMethods ==
  {Method("Channel.Close", NoTag, c, "remote") : c \in Codes}
  \cup {Method(k, NoTag, 0, "remote") : k \in {"Channel.CloseOk", "Basic.CancelOk", "Basic.GetOk", "Basic.GetEmpty", "Basic.Return", "Channel.Flow", "Channel.OpenOk"}}
  \cup {Method(k, t, 0, "remote") : k \in {"Basic.ConsumeOk", "Basic.Deliver"}, t \in Tags}

\* the fragments of body frames: empty, one byte, two bytes
Fragments == {<<>>, <<"x">>, <<"y">>, <<"x", "y">>}

Frame(type, method, size, fragment) == [type |-> type, method |-> method, body_size |-> size, fragment |-> fragment]

FrameMethod(m) == Frame("method", m, 0, <<>>)

FrameHeader(size) == Frame("header", NoMethod, size, <<>>)

FrameBody(fragment) == Frame("body", NoMethod, 0, fragment)

Frames ==
  {FrameMethod(m) : m \in InboundMethods}
  \cup {FrameHeader(n) : n \in 0..MaxBodySize}
  \cup {FrameBody(b) : b \in Fragments}

NoFrame == Frame("None", NoMethod, 0, <<>>)

RECURSIVE join(_)
\* ''.join(body_fragments)
join(fragments) == IF fragments = <<>> THEN <<>> ELSE Head(fragments) \o join(Tail(fragments))

Listeners == {"l1"}

\* ------------------------------------------------------------------ state
VARIABLES
  frame_handler,      \* ChannelHandler.frame_handler: the continuation and what its closure holds
  channel_close,      \* ChannelHandler.channel_close
  reply_map,          \* ChannelHandler.reply_map: kind -> the set_reply closure, 0 if absent; the
                      \* closure of the wait at stack[i] is i, that of a call that has ended is Dead
  handlers,           \* channel_state_change_event: the registered listeners
  callbacks,          \* Channel.callbacks: the registered consumer tags
  next_consumer_tag,  \* Channel.next_consumer_tag
  stack,              \* the call stack: blocked wait_for_reply calls and running consumer callbacks
  released,           \* number of connection.reset_channel calls
  hist,               \* the frames fed since the last method frame taken in the method-awaiting
                      \* state, with what each did; forgotten after one of them has raised
  last                \* what the last step did

vars == <<frame_handler, channel_close, reply_map, handlers, callbacks, next_consumer_tag, stack, released, hist, last>>

\* in reply_map: the set_reply closure of a wait_for_reply call that has ended (it
\* returned, or an exception unwound it); calling it has no effect anyone can see
Dead == -1

NoExc == [name |-> "None", what |-> ""]

Exc(name, what) == [name |-> name, what |-> what]

\* an observable call made by the channel: on the connection, a listener, a callback
Ev(e, method, n, body) == [e |-> e, method |-> method, n |-> n, body |-> body]

\* the continuation self._handle_method
HandleMethod == [state |-> "method", method |-> NoMethod, body_size |-> 0, seen_so_far |-> 0, body_fragments |-> <<>>]

\* the closure returned by _make_header_handler(method_frame)
HeaderHandler(method) == [state |-> "header", method |-> method, body_size |-> 0, seen_so_far |-> 0, body_fragments |-> <<>>]

\* the closure handler of _install_body_handler(method_frame, header_frame)
BodyHandler(method, size, seen, fragments) == [state |-> "body", method |-> method, body_size |-> size, seen_so_far |-> seen, body_fragments |-> fragments]

\* the program state as one record, threaded through the methods below;
\* out collects the calls made during the step, raised the exception in flight
Cur == [frame_handler |-> frame_handler, channel_close |-> channel_close, reply_map |-> reply_map,
        handlers |-> handlers, callbacks |-> callbacks, next_consumer_tag |-> next_consumer_tag,
        stack |-> stack, released |-> released,
        out |-> <<>>, raised |-> NoExc, ret |-> NoMethod]

Emit(s, ev) == [s EXCEPT !.out = Append(@, ev)]

Raise(s, name, what) == [s EXCEPT !.raised = Exc(name, what)]

Closed(s) == s.channel_close # NoMethod

Top(s) == s.stack[Len(s.stack)]

\* a frame of the call stack: a wait_for_reply blocked in drain_events (t = "wait", with
\* its set_reply closure id, the operation that called it, the method it sent and its
\* reply[0]), or a consumer callback that is running (t = "callback")
StackFrame(t, id, op, arg, reply) == [t |-> t, id |-> id, op |-> op, arg |-> arg, reply |-> reply]

\* ------------------------------------------------------------------ collaborators
\* connection.send_method(channel_number, method[, content])
send_method(s, method) == Emit(s, Ev("send_method", method, 0, <<>>))

\* connection.reset_channel(channel_number)
reset_channel(s) == [Emit(s, Ev("reset_channel", NoMethod, 0, <<>>)) EXCEPT !.released = @ + 1]

\* Event.fire(channel, isOpen): every registered listener is called
RECURSIVE call_handlers(_, _, _)
call_handlers(s, listeners, isOpen) ==
  IF listeners = {} THEN s
  ELSE LET l == CHOOSE x \in listeners : TRUE IN
       call_handlers(Emit(s, Ev("listener", NoMethod, IF isOpen THEN 1 ELSE 0, <<l>>)), listeners \ {l}, isOpen)

fire(s, isOpen) == call_handlers(Emit(s, Ev("fire", NoMethod, IF isOpen THEN 1 ELSE 0, <<>>)), s.handlers, isOpen)

\* ------------------------------------------------------------------ ChannelHandler
_ensure(s) == IF Closed(s) THEN Raise(s, "ChannelClosed", "") ELSE s

\* _set_channel_close without the test of self.channel_close
_set_channel_close_unguarded(s, c) ==
  fire(reset_channel([s EXCEPT !.channel_close = c]), FALSE)

_set_channel_close(s, c) ==
  IF ~Closed(s)
  THEN fire(reset_channel([s EXCEPT !.channel_close = c]), FALSE)
  ELSE s

\* _async_channel_close that acknowledges only the Close that closes the channel
_async_channel_close_once(s, method) ==
  IF Closed(s) THEN s
  ELSE send_method(_set_channel_close(s, method), Method("Channel.CloseOk", NoTag, 0, "local"))

_async_channel_close(s, method) ==
  send_method(_set_channel_close(s, method), Method("Channel.CloseOk", NoTag, 0, "local"))

\* addStateChangeHandler that always reports an open channel
addStateChangeHandler_open(s, l) ==
  Emit([s EXCEPT !.handlers = @ \cup {l}], Ev("listener", NoMethod, 1, <<l>>))

addStateChangeHandler(s, l) ==
  Emit([s EXCEPT !.handlers = @ \cup {l}], Ev("listener", NoMethod, IF ~Closed(s) THEN 1 ELSE 0, <<l>>))

\* the closure set_reply of the wait_for_reply call with this id: reply[0] = r.
\* A closure whose call has already ended still runs, and nothing reads its reply.
set_reply(s, id, r) ==
  [s EXCEPT !.stack = [i \in DOMAIN s.stack |->
     IF s.stack[i].t = "wait" /\ s.stack[i].id = id THEN [s.stack[i] EXCEPT !.reply = r] ELSE s.stack[i]]]

RECURSIVE register_overwrite(_, _, _)
\* the registration loop without the test for a pending kind
register_overwrite(s, acceptable_replies, id) ==
  IF acceptable_replies = <<>> THEN s
  ELSE register_overwrite([s EXCEPT !.reply_map[Head(acceptable_replies)] = id], Tail(acceptable_replies), id)

RECURSIVE register(_, _, _)
\* the loop of wait_for_reply over acceptable_replies (lines 48-51)
register(s, acceptable_replies, id) ==
  IF acceptable_replies = <<>> THEN s
  ELSE LET possibility == Head(acceptable_replies) IN
       IF s.reply_map[possibility] # 0
       THEN Raise(s, "RecursiveOperationDetected", possibility)
       ELSE register([s EXCEPT !.reply_map[possibility] = id], Tail(acceptable_replies), id)

\* wait_for_reply up to its first call of drain_events; the rest is the action WaitLoop
wait_for_reply(s, acceptable_replies, op, arg) ==
  IF acceptable_replies = <<>> THEN s
  ELSE LET id == Len(s.stack) + 1
           s1 == register(s, acceptable_replies, id)
       IN
       IF s1.raised # NoExc THEN s1
       ELSE LET s2 == _ensure(s1) IN
            IF s2.raised # NoExc THEN s2
            ELSE Emit([s2 EXCEPT !.stack = Append(@, StackFrame("wait", id, op, arg, NoMethod))],
                      Ev("drain_events", NoMethod, 0, <<>>))

\* Channel._async_basic_deliver: callbacks[consumer_tag](channel, method, properties, body)
_async_basic_deliver(s, method, body) ==
  IF method.consumer_tag \in s.callbacks
  THEN Emit([s EXCEPT !.stack = Append(@, StackFrame("callback", 0, "consumer", method, NoMethod))],
            Ev("consumer", method, 0, body))
  ELSE Raise(s, "KeyError", "consumer_tag")

\* Channel._async_basic_return
_async_basic_return(s) == Raise(s, "NotImplementedError", "Basic.Return")

\* Channel._async_channel_flow
_async_channel_flow(s) == Raise(s, "NotImplementedError", "Channel.Flow")

\* _handle_async that drops a method nobody handles
_handle_async_drop(s, method, has_header, body) ==
  LET methodClass == method.kind
      s0 == Emit(s, Ev("dispatch", method, IF has_header THEN 1 ELSE 0, body))
  IN IF s0.reply_map[methodClass] # 0
     THEN LET handler == s0.reply_map[methodClass]
              s1 == [s0 EXCEPT !.reply_map[methodClass] = 0]
          IN set_reply(Emit(s1, Ev("set_reply", method, handler, body)), handler, method)
     ELSE IF methodClass \in async_map
     THEN LET s1 == Emit(s0, Ev("async", method, 0, body)) IN
          CASE methodClass = "Channel.Close" -> _async_channel_close(s1, method)
            [] methodClass = "Basic.Deliver" -> _async_basic_deliver(s1, method, body)
            [] methodClass = "Basic.Return" -> _async_basic_return(s1)
            [] methodClass = "Channel.Flow" -> _async_channel_flow(s1)
     ELSE s0

\* _handle_async that leaves the reply callback in reply_map
_handle_async_no_del(s, method, has_header, body) ==
  LET methodClass == method.kind
      s0 == Emit(s, Ev("dispatch", method, IF has_header THEN 1 ELSE 0, body))
  IN IF s0.reply_map[methodClass] # 0
     THEN set_reply(Emit(s0, Ev("set_reply", method, s0.reply_map[methodClass], body)), s0.reply_map[methodClass], method)
     ELSE IF methodClass \in async_map
     THEN LET s1 == Emit(s0, Ev("async", method, 0, body)) IN
          CASE methodClass = "Channel.Close" -> _async_channel_close(s1, method)
            [] methodClass = "Basic.Deliver" -> _async_basic_deliver(s1, method, body)
            [] methodClass = "Basic.Return" -> _async_basic_return(s1)
            [] methodClass = "Channel.Flow" -> _async_channel_flow(s1)
     ELSE Emit(s0, Ev("connection.close", method, NOT_IMPLEMENTED, <<>>))

_handle_async(s, method, has_header, body) ==
  LET methodClass == method.kind
      s0 == Emit(s, Ev("dispatch", method, IF has_header THEN 1 ELSE 0, body))
  IN IF s0.reply_map[methodClass] # 0
     THEN LET handler == s0.reply_map[methodClass]
              s1 == [s0 EXCEPT !.reply_map[methodClass] = 0]
          IN set_reply(Emit(s1, Ev("set_reply", method, handler, body)), handler, method)
     ELSE IF methodClass \in async_map
     THEN LET s1 == Emit(s0, Ev("async", method, 0, body)) IN
          CASE methodClass = "Channel.Close" -> _async_channel_close(s1, method)
            [] methodClass = "Basic.Deliver" -> _async_basic_deliver(s1, method, body)
            [] methodClass = "Basic.Return" -> _async_basic_return(s1)
            [] methodClass = "Channel.Flow" -> _async_channel_flow(s1)
     ELSE Emit(s0, Ev("connection.close", method, NOT_IMPLEMENTED, <<>>))

\* finish() that dispatches without resetting the continuation
finish_no_reset(s, method, body_fragments) ==
  _handle_async(s, method, TRUE, join(body_fragments))

\* finish() of _install_body_handler
finish(s, method, body_fragments) ==
  _handle_async([s EXCEPT !.frame_handler = HandleMethod], method, TRUE, join(body_fragments))

_install_body_handler(s, method, body_size) ==
  IF body_size = 0
  THEN finish(s, method, <<>>)
  ELSE [s EXCEPT !.frame_handler = BodyHandler(method, body_size, 0, <<>>)]

\* handler(body_frame) that compares the sizes only for equality
body_handler_no_excess(s, frame) ==
  LET h == s.frame_handler IN
  IF frame.type # "body" THEN Raise(s, "UnexpectedFrameError", frame.type)
  ELSE LET seen == h.seen_so_far + Len(frame.fragment)
           fragments == Append(h.body_fragments, frame.fragment)
           s1 == [s EXCEPT !.frame_handler = BodyHandler(h.method, h.body_size, seen, fragments)]
       IN IF seen = h.body_size THEN finish(s1, h.method, fragments) ELSE s1

\* handler(body_frame) of _install_body_handler
body_handler(s, frame) ==
  LET h == s.frame_handler IN
  IF frame.type # "body" THEN Raise(s, "UnexpectedFrameError", frame.type)
  ELSE LET seen == h.seen_so_far + Len(frame.fragment)
           fragments == Append(h.body_fragments, frame.fragment)
           s1 == [s EXCEPT !.frame_handler = BodyHandler(h.method, h.body_size, seen, fragments)]
       IN IF seen = h.body_size THEN finish(s1, h.method, fragments)
          ELSE IF seen > h.body_size THEN Raise(s1, "BodyTooLongError", "")
          ELSE s1

\* handler(header_frame) that dispatches an empty content itself, without finish()
header_handler_no_finish(s, frame) ==
  IF frame.type # "header" THEN Raise(s, "UnexpectedFrameError", frame.type)
  ELSE IF frame.body_size = 0 THEN _handle_async(s, s.frame_handler.method, TRUE, <<>>)
  ELSE [s EXCEPT !.frame_handler = BodyHandler(s.frame_handler.method, frame.body_size, 0, <<>>)]

\* handler(header_frame) of _make_header_handler
header_handler(s, frame) ==
  IF frame.type # "header" THEN Raise(s, "UnexpectedFrameError", frame.type)
  ELSE _install_body_handler(s, s.frame_handler.method, frame.body_size)

_handle_method(s, frame) ==
  IF frame.type # "method" THEN Raise(s, "UnexpectedFrameError", frame.type)
  ELSE IF has_content(frame.method.kind)
  THEN [s EXCEPT !.frame_handler = HeaderHandler(frame.method)]
  ELSE _handle_async(s, frame.method, FALSE, <<>>)

\* the connection hands a frame of this channel to self.frame_handler
call_frame_handler(s, frame) ==
  CASE s.frame_handler.state = "method" -> _handle_method(s, frame)
    [] s.frame_handler.state = "header" -> header_handler(s, frame)
    [] s.frame_handler.state = "body" -> body_handler(s, frame)

\* connection._rpc(channel_number, method, acceptable_replies): sends the method, then
\* waits on the channel for one of the replies
connection_rpc(s, method, acceptable_replies, op) ==
  wait_for_reply(send_method(s, method), acceptable_replies, op, method)

_rpc(s, method, acceptable_replies, op) ==
  LET s1 == _ensure(s) IN
  IF s1.raised # NoExc THEN s1 ELSE connection_rpc(s1, method, acceptable_replies, op)

\* ------------------------------------------------------------------ Channel
\* close up to the first drain_events of its RPC
close(s, code) ==
  _rpc(s, Method("Channel.Close", NoTag, code, "local"), <<"Channel.CloseOk">>, "close")

\* close that returns without marking the channel closed
close_done_skip(s, c) == s

\* close after the RPC has returned: self.handler._set_channel_close(c)
close_done(s, c) == _set_channel_close(s, c)

basic_publish(s) == send_method(s, Method("Basic.Publish", NoTag, 0, "local"))

\* basic_consume that performs the RPC without registering the callback
basic_consume_unregistered(s, consumer_tag) ==
  LET synth == consumer_tag = NoTag
      tag == IF synth THEN <<"c", "t", "a", "g">> \o str(s.next_consumer_tag) ELSE consumer_tag
      s1 == IF synth THEN [s EXCEPT !.next_consumer_tag = @ + 1] ELSE s
  IN IF tag \in s1.callbacks
     THEN Raise(s1, "DuplicateConsumerTag", "")
     ELSE _rpc(s1, Method("Basic.Consume", tag, 0, "local"), <<"Basic.ConsumeOk">>, "basic_consume")

\* basic_consume that synthesizes the tag without advancing the counter
basic_consume_no_incr(s, consumer_tag) ==
  LET synth == consumer_tag = NoTag
      tag == IF synth THEN <<"c", "t", "a", "g">> \o str(s.next_consumer_tag) ELSE consumer_tag
  IN IF tag \in s.callbacks
     THEN Raise(s, "DuplicateConsumerTag", "")
     ELSE _rpc([s EXCEPT !.callbacks = @ \cup {tag}], Method("Basic.Consume", tag, 0, "local"),
               <<"Basic.ConsumeOk">>, "basic_consume")

basic_consume(s, consumer_tag) ==
  LET synth == consumer_tag = NoTag
      tag == IF synth THEN <<"c", "t", "a", "g">> \o str(s.next_consumer_tag) ELSE consumer_tag
      s1 == IF synth THEN [s EXCEPT !.next_consumer_tag = @ + 1] ELSE s
  IN IF tag \in s1.callbacks
     THEN Raise(s1, "DuplicateConsumerTag", "")
     ELSE _rpc([s1 EXCEPT !.callbacks = @ \cup {tag}], Method("Basic.Consume", tag, 0, "local"),
               <<"Basic.ConsumeOk">>, "basic_consume")

\* basic_consume after the RPC has returned: .consumer_tag of the reply
basic_consume_done(s, reply) == [s EXCEPT !.ret = Method("None", reply.consumer_tag, 0, "")]

\* basic_cancel that removes the callback before the RPC
basic_cancel_remove_first(s, consumer_tag) ==
  IF consumer_tag \notin s.callbacks
  THEN Raise(s, "UnknownConsumerTag", "")
  ELSE _rpc([s EXCEPT !.callbacks = @ \ {consumer_tag}], Method("Basic.Cancel", consumer_tag, 0, "local"),
            <<"Basic.CancelOk">>, "basic_cancel")

\* basic_cancel without the test of the tag
basic_cancel_unchecked(s, consumer_tag) ==
  _rpc(s, Method("Basic.Cancel", consumer_tag, 0, "local"), <<"Basic.CancelOk">>, "basic_cancel")

\* basic_cancel up to the first drain_events of its RPC
basic_cancel(s, consumer_tag) ==
  IF consumer_tag \notin s.callbacks
  THEN Raise(s, "UnknownConsumerTag", "")
  ELSE _rpc(s, Method("Basic.Cancel", consumer_tag, 0, "local"), <<"Basic.CancelOk">>, "basic_cancel")

\* basic_cancel after the RPC has returned: del self.callbacks[consumer_tag]
basic_cancel_done(s, consumer_tag) ==
  IF consumer_tag \in s.callbacks
  THEN [s EXCEPT !.callbacks = @ \ {consumer_tag}]
  ELSE Raise(s, "KeyError", "consumer_tag")

\* the loop of wait_for_reply without its call of _ensure
wait_loop_no_ensure(s) ==
  LET w == Top(s) IN
  IF w.reply # NoMethod
  THEN LET s1 == [s EXCEPT !.stack = SubSeq(@, 1, Len(@) - 1), !.ret = w.reply] IN
       CASE w.op = "close" -> close_done(s1, w.arg)
         [] w.op = "basic_consume" -> basic_consume_done(s1, w.reply)
         [] w.op = "basic_cancel" -> basic_cancel_done(s1, w.arg.consumer_tag)
         [] OTHER -> s1
  ELSE Emit(s, Ev("drain_events", NoMethod, 0, <<>>))

\* one turn of the loop of wait_for_reply when drain_events has returned (lines 52-55),
\* and, when the wait returns, the rest of the operation that was waiting
wait_loop(s) ==
  LET w == Top(s) IN
  IF w.reply # NoMethod
  THEN LET s1 == [s EXCEPT !.stack = SubSeq(@, 1, Len(@) - 1), !.ret = w.reply] IN
       CASE w.op = "close" -> close_done(s1, w.arg)
         [] w.op = "basic_consume" -> basic_consume_done(s1, w.reply)
         [] w.op = "basic_cancel" -> basic_cancel_done(s1, w.arg.consumer_tag)
         [] OTHER -> s1
  ELSE LET s1 == _ensure(s) IN
       IF s1.raised # NoExc THEN s1 ELSE Emit(s1, Ev("drain_events", NoMethod, 0, <<>>))
\* ------------------------------------------------------------------ the state machine
\* what a step did: the operation, the method it was called with or fed, the exception
\* it raised, the close reason and the continuation it started from, the calls it made
Did(op, method, s0, s) ==
  [op |-> op, method |-> method, raised |-> s.raised.name, pre_closed |-> Closed(s0),
   pre_state |-> s0.frame_handler.state, out |-> s.out]

Init ==
  /\ frame_handler = HandleMethod
  /\ channel_close = NoMethod
  /\ reply_map = [k \in Kinds |-> 0]
  /\ handlers = {}
  /\ callbacks = {}
  /\ next_consumer_tag = 0
  /\ stack = <<>>
  /\ released = 0
  /\ hist = <<>>
  /\ last = Did("__init__", Method("Channel.Open", NoTag, 0, "local"), Cur, Cur)

\* the step leaves the program in s with the call stack stk; the set_reply closures of
\* the calls that are no longer on the stack are Dead
CommitAt(s, op, method, stk) ==
  /\ Len(s.stack) <= MaxDepth
  /\ frame_handler' = s.frame_handler
  /\ channel_close' = s.channel_close
  /\ reply_map' = [k \in Kinds |-> IF s.reply_map[k] > Len(stk) THEN Dead ELSE s.reply_map[k]]
  /\ handlers' = s.handlers
  /\ callbacks' = s.callbacks
  /\ next_consumer_tag' = s.next_consumer_tag
  /\ stack' = stk
  /\ released' = s.released
  /\ last' = Did(op, method, Cur, s)

\* the step leaves the program in s; an exception in flight that nobody catches unwinds
\* the whole call stack
Commit(s, op, method) == CommitAt(s, op, method, IF s.raised # NoExc THEN <<>> ELSE s.stack)

Frozen == hist # <<>> /\ hist[Len(hist)].raised # "None"

\* hist after a step that feeds no frame: a sequence that has dispatched or raised is forgotten
Settle == IF hist # <<>> /\ (Frozen \/ hist[Len(hist)].dispatched # <<>>) THEN <<>> ELSE hist

\* the application, or a running consumer callback, may call the channel
UserCtx == IF stack = <<>> THEN TRUE ELSE Top(Cur).t = "callback"

\* the connection may hand a frame to the channel: inside a drain_events call
Draining == IF stack = <<>> THEN TRUE ELSE Top(Cur).t = "wait"

CloseMethod(code) == Method("Channel.Close", NoTag, code, "local")

Close(code) ==
  /\ UserCtx
  /\ Commit(close(Cur, code), "close", CloseMethod(code))
  /\ hist' = Settle

BasicPublish ==
  /\ UserCtx
  /\ Commit(basic_publish(Cur), "basic_publish", Method("Basic.Publish", NoTag, 0, "local"))
  /\ hist' = Settle

BasicConsume(consumer_tag) ==
  /\ UserCtx
  /\ consumer_tag = NoTag => next_consumer_tag < MaxTag
  /\ Commit(basic_consume(Cur, consumer_tag), "basic_consume", Method("Basic.Consume", consumer_tag, 0, "local"))
  /\ hist' = Settle

BasicCancel(consumer_tag) ==
  /\ UserCtx
  /\ Commit(basic_cancel(Cur, consumer_tag), "basic_cancel", Method("Basic.Cancel", consumer_tag, 0, "local"))
  /\ hist' = Settle

GenericMethod == Method("Basic.Get", NoTag, 0, "local")

\* any other caller of handler._rpc, such as basic_get with [Basic.GetOk, Basic.GetEmpty]
Rpc(acceptable_replies) ==
  /\ UserCtx
  /\ Commit(_rpc(Cur, GenericMethod, acceptable_replies, "_rpc"), "_rpc", GenericMethod)
  /\ hist' = Settle

\* handler._rpc called by a consumer callback that catches the exception it raises:
\* the callback goes on, and the waits below it are still in progress
RpcCaught(acceptable_replies) ==
  /\ stack # <<>>
  /\ UserCtx
  /\ LET s == _rpc(Cur, GenericMethod, acceptable_replies, "_rpc") IN
     /\ s.raised # NoExc
     /\ CommitAt(s, "_rpc", GenericMethod, stack)
  /\ hist' = Settle

AddStateChangeHandler(l) ==
  /\ UserCtx
  /\ Commit(addStateChangeHandler(Cur, l), "addStateChangeHandler", NoMethod)
  /\ hist' = Settle

Dispatches(s) == SelectSeq(s.out, LAMBDA ev : ev.e = "dispatch")

\* drain_events delivers one more frame of this channel
DeliverFrame(frame) ==
  /\ Draining
  /\ frame_handler.state = "body" /\ frame.type = "body" => Len(frame_handler.body_fragments) < MaxFrags
  /\ LET fresh == frame_handler.state = "method" /\ frame.type = "method"
         s == call_frame_handler(Cur, frame)
         entry == [frame |-> frame, raised |-> s.raised.name, dispatched |-> Dispatches(s)]
     IN /\ hist' = IF fresh THEN <<entry>> ELSE IF hist = <<>> \/ Frozen THEN <<>> ELSE Append(hist, entry)
        /\ Commit(s, "frame", frame.method)

\* drain_events returns to the innermost wait_for_reply
WaitLoop ==
  /\ stack # <<>>
  /\ Top(Cur).t = "wait"
  /\ Commit(wait_loop(Cur), "wait_loop", Top(Cur).arg)
  /\ hist' = Settle

\* the running consumer callback returns
CallbackReturn ==
  /\ stack # <<>>
  /\ Top(Cur).t = "callback"
  /\ Commit([Cur EXCEPT !.stack = SubSeq(@, 1, Len(@) - 1)], "callback_return", NoMethod)
  /\ hist' = Settle

\* the lists of up to two distinct reply kinds
AcceptableReplies == {kinds \in UNION {[1..n -> GenericKinds] : n \in 0..2} : \A i, j \in DOMAIN kinds : kinds[i] = kinds[j] => i = j}

MethodFrames(kinds) == {f \in Frames : f.type = "method" /\ f.method.kind \in kinds}

\* Three environments.  Each feeds the channel one family of inputs in full and
\* the rest in part, so that every family is explored to the depth of MaxDepth.

\* The facade and the lifecycle: every facade operation, the replies to them, remote
\* Close, deliveries with an empty body.
FacadeFrames ==
  MethodFrames({"Channel.Close", "Channel.CloseOk", "Basic.ConsumeOk", "Basic.CancelOk", "Basic.Deliver"})
  \cup {FrameHeader(0)}

Next ==
  \/ \E code \in Codes : Close(code)
  \/ BasicPublish
  \/ \E tag \in Tags \cup {NoTag} : BasicConsume(tag)
  \/ \E tag \in Tags : BasicCancel(tag)
  \/ \E l \in Listeners : AddStateChangeHandler(l)
  \/ \E frame \in FacadeFrames : DeliverFrame(frame)
  \/ WaitLoop
  \/ CallbackReturn

Spec == Init /\ [][Next]_vars

\* The correlator and the router: waits on any list of reply kinds, nested in consumer
\* callbacks, and methods of every routing (reply, async, unknown).
RpcFrames ==
  MethodFrames({"Channel.Close", "Basic.GetOk", "Basic.GetEmpty", "Channel.Flow", "Channel.OpenOk", "Basic.Deliver"})
  \cup {FrameHeader(0)}

NextRpc ==
  \/ \E kinds \in AcceptableReplies : Rpc(kinds)
  \/ BasicConsume(NoTag)
  \/ \E frame \in RpcFrames : DeliverFrame(frame)
  \/ WaitLoop
  \/ CallbackReturn

SpecRpc == Init /\ [][NextRpc]_vars

\* every drain_events call returns: it delivers finitely many frames, and the
\* callbacks it runs return
FairSpec == SpecRpc /\ SF_vars(WaitLoop) /\ WF_vars(CallbackReturn)

\* Overlapping waits: as the correlator, with consumer callbacks that catch the
\* exception of the RPC they start.
NextNested ==
  \/ \E kinds \in AcceptableReplies : Rpc(kinds)
  \/ \E kinds \in AcceptableReplies : RpcCaught(kinds)
  \/ BasicConsume(NoTag)
  \/ \E frame \in RpcFrames : DeliverFrame(frame)
  \/ WaitLoop
  \/ CallbackReturn

SpecNested == Init /\ [][NextNested]_vars

\* The reassembler: every frame, with a consumer and a wait for a content-bearing reply.
NextFrames ==
  \/ BasicConsume(NoTag)
  \/ Rpc(<<"Basic.GetOk">>)
  \/ \E frame \in Frames : DeliverFrame(frame)
  \/ WaitLoop
  \/ CallbackReturn

SpecFrames == Init /\ [][NextFrames]_vars

\* basic_consume(consumer) of a caller that supplies no tag
BasicConsumeSynth ==
  /\ UserCtx
  /\ next_consumer_tag < MaxCalls
  /\ Commit(basic_consume(Cur, NoTag), "basic_consume", Method("Basic.Consume", NoTag, 0, "local"))
  /\ hist' = Settle

\* The tag counter: callers that never supply a tag, cancelling the first consumer,
\* closing, with the replies and deliveries of the first consumer.
NextTags ==
  \/ BasicConsumeSynth
  \/ BasicCancel(<<"c", "t", "a", "g", "0">>)
  \/ Close(0)
  \/ \E frame \in MethodFrames({"Basic.ConsumeOk", "Basic.CancelOk", "Basic.Deliver", "Channel.CloseOk"}) \cup {FrameHeader(0)} : DeliverFrame(frame)
  \/ WaitLoop
  \/ CallbackReturn

SpecTags == Init /\ [][NextTags]_vars

\* ------------------------------------------------------------------ the claims
Count(out, e) == Len(SelectSeq(out, LAMBDA ev : ev.e = e))

Pending(map) == {k \in Kinds : map[k] # 0}

\* C1: once the close reason is set, every call of basic_publish, basic_consume,
\* basic_cancel, close or _rpc raises ChannelClosed and sends no method.
C1_ClosedRejectsEveryOperation ==
  (last.pre_closed /\ last.op \in {"basic_publish", "basic_consume", "basic_cancel", "close", "_rpc"})
    => (last.raised = "ChannelClosed" /\ Count(last.out, "send_method") = 0)

\* C2: a wait_for_reply that finds one of its kinds already pending raises
\* RecursiveOperationDetected and leaves the pending replies as they were before the call.
C2_RegistrationAllOrNothing ==
  [][\A kinds \in AcceptableReplies :
       (Rpc(kinds) /\ ~Closed(Cur) /\ (\E i \in DOMAIN kinds : reply_map[kinds[i]] # 0))
         => (last'.raised = "RecursiveOperationDetected" /\ Pending(reply_map') = Pending(reply_map))]_vars

\* C3: after the frame handler raises UnexpectedFrameError while a header or a body is
\* expected, or BodyTooLongError, the reassembler is back in the method-awaiting state,
\* and the close reason, the pending replies and the consumer callbacks are unchanged.
C3_ViolationResetsReassembler ==
  [][(last'.op = "frame" /\ frame_handler.state \in {"header", "body"}
        /\ last'.raised \in {"UnexpectedFrameError", "BodyTooLongError"})
       => (/\ frame_handler' = HandleMethod
           /\ channel_close' = channel_close
           /\ Pending(reply_map') = Pending(reply_map)
           /\ callbacks' = callbacks)]_vars
HistFrames == [i \in DOMAIN hist |-> hist[i].frame]

\* the fragments of the body frames of a sequence method, header, body*
BodyPart(frames) == [i \in 1..(Len(frames) - 2) |-> frames[i + 2].fragment]

RECURSIVE SumLen(_)
SumLen(fragments) == IF fragments = <<>> THEN 0 ELSE Len(Head(fragments)) + SumLen(Tail(fragments))

RECURSIVE Concat(_)
Concat(fragments) ==
  IF fragments = <<>> THEN <<>>
  ELSE Concat(SubSeq(fragments, 1, Len(fragments) - 1)) \o fragments[Len(fragments)]

\* a well-formed sequence: a non-content method frame alone; or a content-bearing method
\* frame, a header frame declaring S, and body frames whose lengths sum to S (none if S = 0)
WellFormed(frames) ==
  /\ frames # <<>>
  /\ frames[1].type = "method"
  /\ IF has_content(frames[1].method.kind)
     THEN /\ Len(frames) >= 2
          /\ frames[2].type = "header"
          /\ \A i \in 3..Len(frames) : frames[i].type = "body"
          /\ IF frames[2].body_size = 0 THEN Len(frames) = 2
             ELSE SumLen(BodyPart(frames)) = frames[2].body_size
     ELSE Len(frames) = 1

\* ... in which the sum reaches S only at the last body frame
ReachedAtLast(frames) ==
  \A n \in 0..(Len(frames) - 3) : SumLen(SubSeq(BodyPart(frames), 1, n)) < frames[2].body_size

\* the sequence in hist dispatched once, at its last frame, the triple it carries
DispatchedAtLast ==
  /\ \A i \in 1..(Len(hist) - 1) : hist[i].dispatched = <<>>
  /\ hist[Len(hist)].dispatched =
       <<Ev("dispatch", hist[1].frame.method, IF has_content(hist[1].frame.method.kind) THEN 1 ELSE 0,
            Concat(BodyPart(HistFrames)))>>
  /\ frame_handler = HandleMethod

\* C4 as claimed: every well-formed frame sequence fed from the method-awaiting state
\* dispatches exactly one triple, at its last frame, with the fragments concatenated in
\* order, and leaves the reassembler in the method-awaiting state.
C4_WellFormedDispatchedAtLastFrame == WellFormed(HistFrames) => DispatchedAtLast

\* C4 as amended: the same for the well-formed sequences whose body frames reach the
\* declared size only at the last body frame (no empty body frame follows the one that
\* completes the body).
C4_CompleteSequenceDispatchedOnce ==
  (WellFormed(HistFrames) /\ ReachedAtLast(HistFrames)) => DispatchedAtLast

\* C4 witness: a content delivery of two fragments assembled in order
C4_Witness ==
  /\ WellFormed(HistFrames) /\ ReachedAtLast(HistFrames)
  /\ Len(hist) = 4
  /\ hist[4].dispatched # <<>>
  /\ hist[4].dispatched[1].body = <<"y", "x">>

\* body frame i of hist arrived while body fragments were expected
BodyExpected(i) ==
  /\ has_content(hist[1].frame.method.kind)
  /\ hist[2].frame.type = "header"
  /\ hist[2].frame.body_size > 0
  /\ \A j \in 3..(i - 1) :
       /\ hist[j].frame.type = "body"
       /\ SumLen(SubSeq(BodyPart(HistFrames), 1, j - 2)) < hist[2].frame.body_size

\* C5: while body fragments are expected, BodyTooLongError is raised at the first body
\* frame that takes the accumulated length past the declared size and at no earlier
\* one, and no triple is dispatched for that delivery.
C5_BodyTooLongAtFirstExcess ==
  /\ \A i \in 3..Len(hist) :
       (BodyExpected(i) /\ hist[i].frame.type = "body") =>
         /\ (hist[i].raised = "BodyTooLongError")
              <=> (SumLen(SubSeq(BodyPart(HistFrames), 1, i - 2)) > hist[2].frame.body_size)
         /\ hist[i].raised = "BodyTooLongError" => \A j \in 1..i : hist[j].dispatched = <<>>
  /\ (frame_handler.state = "body" /\ frame_handler.seen_so_far > frame_handler.body_size /\ last.op = "frame")
       => Count(last.out, "dispatch") = 0

\* C5 witness: the second body frame of a delivery is the one that overflows
C5_Witness ==
  /\ Len(hist) = 4
  /\ BodyExpected(4)
  /\ hist[3].raised = "None"
  /\ hist[4].raised = "BodyTooLongError"
Events(out, e) == SelectSeq(out, LAMBDA ev : ev.e = e)

\* C6: a dispatched method whose kind is pending has its reply callback removed and
\* called once, and the async handler is not called; the async handler is called only
\* when the kind is not pending.
C6_ReplyTakesPriority ==
  [][(last'.op = "frame" /\ Count(last'.out, "dispatch") = 1) =>
       LET d == Events(last'.out, "dispatch")[1]
           K == d.method.kind
       IN IF reply_map[K] # 0
          THEN /\ reply_map'[K] = 0
               /\ Events(last'.out, "set_reply") = <<Ev("set_reply", d.method, reply_map[K], d.body)>>
               /\ Count(last'.out, "async") = 0
               /\ Count(last'.out, "connection.close") = 0
          ELSE /\ Count(last'.out, "set_reply") = 0
               /\ Count(last'.out, "async") = (IF K \in async_map THEN 1 ELSE 0)]_vars

\* C6 witness: a method with an async handler was awaited, and went to the waiting call
C6_Witness ==
  /\ last.op = "frame"
  /\ last.method.kind \in async_map
  /\ Count(last.out, "set_reply") = 1
  /\ Count(last.out, "async") = 0
  /\ reply_map[last.method.kind] = 0

\* the wait at stack[i] has no reply and the channel is closed
WaitingClosed(i) ==
  /\ Len(stack) >= i
  /\ stack[i].t = "wait"
  /\ stack[i].reply = NoMethod
  /\ channel_close # NoMethod

\* the wait at stack[i] has its reply, or ChannelClosed was raised through it, or the
\* drain_events call did not return (a frame handler raised)
WaitSettled(i) ==
  \/ last.raised = "ChannelClosed"
  \/ last.op = "frame" /\ last.raised # "None"
  \/ Len(stack) >= i /\ stack[i].t = "wait" /\ stack[i].reply # NoMethod

\* C7: when drain_events returns to a wait without reply on a closed channel, the wait
\* raises ChannelClosed without calling drain_events again; a wait returns only with its
\* reply; and, every drain_events call returning, a wait without reply on a closed
\* channel ends in ChannelClosed.
C7_WaitEndsWhenClosed ==
  /\ [][(WaitLoop /\ channel_close # NoMethod /\ Top(Cur).reply = NoMethod)
          => (last'.raised = "ChannelClosed" /\ Count(last'.out, "drain_events") = 0)]_vars
  /\ [][(WaitLoop /\ last'.raised = "None" /\ Count(last'.out, "drain_events") = 0)
          => Top(Cur).reply # NoMethod]_vars
  /\ \A i \in 1..MaxDepth : WaitingClosed(i) ~> WaitSettled(i)

\* C7 witness: a wait in progress was ended by ChannelClosed
C7_Witness ==
  /\ last.op = "wait_loop"
  /\ last.raised = "ChannelClosed"
  /\ last.pre_closed
  /\ channel_close.origin = "remote"

\* C8: the close reason, once set, never changes; reset_channel and the listeners'
\* fire(False) happen once, in the step that sets it, and in no other.
C8_ClosedOnce ==
  [][/\ channel_close # NoMethod =>
          (channel_close' = channel_close /\ Count(last'.out, "reset_channel") = 0 /\ Count(last'.out, "fire") = 0)
     /\ channel_close = NoMethod =>
          IF channel_close' # NoMethod
          THEN /\ Count(last'.out, "reset_channel") = 1
               /\ Events(last'.out, "fire") = <<Ev("fire", NoMethod, 0, <<>>)>>
          ELSE Count(last'.out, "reset_channel") = 0 /\ Count(last'.out, "fire") = 0
     /\ released' = (IF channel_close' # NoMethod THEN 1 ELSE 0)]_vars

\* a local close has returned from its RPC
CloseReturned ==
  /\ last.op = "wait_loop"
  /\ last.method.kind = "Channel.Close"
  /\ last.raised = "None"
  /\ Count(last.out, "drain_events") = 0

\* C8 witness: a remote Close arrived while a local close was waiting for CloseOk, and
\* the local close then ran _set_channel_close on the closed channel
C8_Witness ==
  /\ CloseReturned
  /\ last.pre_closed
  /\ channel_close.origin = "remote"
  /\ released = 1

ListenerCalls(out) == {<<ev.body[1], ev.n>> : ev \in {out[i] : i \in {j \in DOMAIN out : out[j].e = "listener"}}}

\* an inbound Channel.Close went through the async router in the last step
CloseRouted ==
  /\ last.op = "frame"
  /\ last.method.kind = "Channel.Close"
  /\ Count(last.out, "async") = 1

\* C9: an inbound Channel.Close dispatched through the async router is answered with one
\* Channel.CloseOk, whether the channel was open or not; on an open channel the close
\* reason becomes the received method, the number is released and every registered
\* listener is called with False.
C9_RemoteClose ==
  CloseRouted =>
    /\ Events(last.out, "send_method") = <<Ev("send_method", Method("Channel.CloseOk", NoTag, 0, "local"), 0, <<>>)>>
    /\ IF last.pre_closed
       THEN Count(last.out, "reset_channel") = 0 /\ Count(last.out, "listener") = 0
       ELSE /\ channel_close = last.method
            /\ Count(last.out, "reset_channel") = 1
            /\ ListenerCalls(last.out) = {<<l, 0>> : l \in handlers}
            /\ Count(last.out, "listener") = Cardinality(handlers)

\* C9 witness: a remote Close closed an open channel that has a listener, no local
\* close being in progress
C9_Witness ==
  /\ CloseRouted
  /\ ~last.pre_closed
  /\ handlers # {}
  /\ channel_close.origin = "remote"
  /\ reply_map["Channel.CloseOk"] = 0

\* the wait at stack[i] is a local close waiting for CloseOk
CloseWaiting(i) ==
  /\ stack[i].t = "wait"
  /\ stack[i].op = "close"
  /\ stack[i].reply = NoMethod

\* close() sends its Close when the channel is open, and raises ChannelClosed without
\* sending when it is closed
CloseSends ==
  /\ (last.op = "close" /\ ~last.pre_closed) =>
        Events(last.out, "send_method") = <<Ev("send_method", last.method, 0, <<>>)>>
  /\ (last.op = "close" /\ ~last.pre_closed /\ last.raised = "None") =>
        /\ channel_close = NoMethod
        /\ CloseWaiting(Len(stack))
        /\ reply_map["Channel.CloseOk"] = Len(stack)
  /\ (last.op = "close" /\ last.pre_closed) =>
        (last.raised = "ChannelClosed" /\ Count(last.out, "send_method") = 0)

\* C10 as claimed: close() issues Close as an RPC awaiting CloseOk, the channel is not
\* marked closed before CloseOk has been received, afterwards the close reason is the
\* Close that was sent, and a second close() raises ChannelClosed without sending.
C10_LocalCloseAsClaimed ==
  /\ CloseSends
  /\ \A i \in 1..Len(stack) : CloseWaiting(i) => channel_close = NoMethod
  /\ CloseReturned => channel_close = last.method

\* C10 as amended: close() itself does not mark the channel closed before CloseOk has
\* been received: while it waits for CloseOk, the channel is closed only by an inbound
\* Close, with the received reason; when close() returns from its RPC the close reason
\* is the Close that was sent, unless the reason has been set in the meantime (by an
\* inbound Close, or by a close() called from a consumer callback), which is then kept.
C10_LocalClose ==
  /\ [](CloseSends)
  /\ [](\A i \in 1..Len(stack) : (CloseWaiting(i) /\ channel_close # NoMethod) => channel_close.origin = "remote")
  /\ [][CloseReturned' => channel_close' = (IF channel_close # NoMethod THEN channel_close ELSE last'.method)]_vars

\* C10 witness: a second close() after a local close that completed
C10_Witness ==
  /\ last.op = "close"
  /\ last.raised = "ChannelClosed"
  /\ channel_close.origin = "local"

\* the tag synthesized from the counter value n
ctag(n) == <<"c", "t", "a", "g">> \o str(n)

\* the last step was a basic_consume call without a tag
SynthCall == last.op = "basic_consume" /\ last.method.consumer_tag = NoTag

\* C11: callers never supplying a tag, the counter starts at 0 and counts the
\* basic_consume calls; the call made when it is n registers the callback under
\* "ctag" + str(n), a tag not registered before, sends Basic.Consume with that tag (it
\* sends whenever the channel is open) and never raises DuplicateConsumerTag; no other
\* step changes the counter; distinct counter values give distinct tags.
C11_SynthesizedTags ==
  /\ [][IF SynthCall'
        THEN /\ next_consumer_tag' = next_consumer_tag + 1
             /\ ctag(next_consumer_tag) \notin callbacks
             /\ callbacks' = callbacks \cup {ctag(next_consumer_tag)}
             /\ last'.raised # "DuplicateConsumerTag"
             /\ Events(last'.out, "send_method") =
                  (IF last'.pre_closed THEN <<>>
                   ELSE <<Ev("send_method", Method("Basic.Consume", ctag(next_consumer_tag), 0, "local"), 0, <<>>)>>)
        ELSE next_consumer_tag' = next_consumer_tag]_vars
  /\ \A i, j \in 0..MaxCalls : i # j => ctag(i) # ctag(j)

\* C11 witness: the eleventh call was made after the first consumer was cancelled, and
\* sent the tag ctag10
C11_Witness ==
  /\ SynthCall
  /\ next_consumer_tag = 11
  /\ <<"c", "t", "a", "g", "1", "0">> \in callbacks
  /\ ctag(0) \notin callbacks
  /\ Count(last.out, "send_method") = 1

\* the tag a basic_consume call uses, from its argument and the counter before the call
TagUsed(arg, n) == IF arg = NoTag THEN ctag(n) ELSE arg

\* C12: basic_consume whose tag (supplied or synthesized) is registered raises
\* DuplicateConsumerTag, and raises it in no other case; basic_cancel of a tag that is
\* not registered raises UnknownConsumerTag, and raises it in no other case; both leave
\* the callbacks as they were and send nothing.
C12_TagMisuse ==
  [][/\ last'.op = "basic_consume" =>
          IF TagUsed(last'.method.consumer_tag, next_consumer_tag) \in callbacks
          THEN /\ last'.raised = "DuplicateConsumerTag"
               /\ callbacks' = callbacks
               /\ last'.out = <<>>
          ELSE last'.raised # "DuplicateConsumerTag"
     /\ last'.op = "basic_cancel" =>
          IF last'.method.consumer_tag \notin callbacks
          THEN /\ last'.raised = "UnknownConsumerTag"
               /\ callbacks' = callbacks
               /\ last'.out = <<>>
          ELSE last'.raised # "UnknownConsumerTag"]_vars

\* C12 witness: a cancel of a tag that is not registered, another consumer being
\* registered, on an open channel
C12_Witness ==
  /\ last.op = "basic_cancel"
  /\ last.raised = "UnknownConsumerTag"
  /\ callbacks = {UserTag}
  /\ last.method.consumer_tag = ctag(0)
  /\ ~last.pre_closed

\* the wait at stack[i] is a basic_cancel waiting for CancelOk
CancelWaiting(i) ==
  /\ stack[i].t = "wait"
  /\ stack[i].op = "basic_cancel"
  /\ stack[i].reply = NoMethod

\* a wait_for_reply of basic_cancel returns its reply in this step
CancelReturns ==
  /\ WaitLoop
  /\ Top(Cur).op = "basic_cancel"
  /\ Top(Cur).reply # NoMethod

\* C13: while basic_cancel waits for CancelOk its tag stays registered, and a
\* Basic.Deliver for that tag dispatched during the wait calls the callback once; a tag
\* is removed from the callbacks only by the step in which a basic_cancel returns from
\* its RPC with Basic.CancelOk, which removes that tag and no other; a basic_cancel
\* that raises ChannelClosed or RecursiveOperationDetected leaves the callbacks alone.
C13_CancelAfterReply ==
  /\ [](\A i \in 1..Len(stack) : CancelWaiting(i) => stack[i].arg.consumer_tag \in callbacks)
  /\ [][(/\ last'.op = "frame"
          /\ stack # <<>>
          /\ CancelWaiting(Len(stack))
          /\ Count(last'.out, "dispatch") = 1
          /\ Events(last'.out, "dispatch")[1].method.kind = "Basic.Deliver"
          /\ Events(last'.out, "dispatch")[1].method.consumer_tag = Top(Cur).arg.consumer_tag)
         => LET d == Events(last'.out, "dispatch")[1] IN
            /\ Events(last'.out, "consumer") = <<Ev("consumer", d.method, 0, d.body)>>
            /\ last'.raised = "None"
            /\ callbacks' = callbacks]_vars
  /\ [][~(callbacks \subseteq callbacks') =>
          /\ CancelReturns
          /\ Top(Cur).reply.kind = "Basic.CancelOk"
          /\ last'.raised = "None"
          /\ callbacks' = callbacks \ {Top(Cur).arg.consumer_tag}]_vars
  /\ [][(CancelReturns /\ last'.raised = "None") => Top(Cur).arg.consumer_tag \notin callbacks']_vars
  /\ [][((last'.op = "basic_cancel" \/ (WaitLoop /\ Top(Cur).op = "basic_cancel"))
          /\ last'.raised \in {"ChannelClosed", "RecursiveOperationDetected"})
         => callbacks' = callbacks]_vars

\* C13 witness: a delivery for the tag being cancelled called the callback while the
\* cancel was waiting for CancelOk
C13_Witness ==
  /\ last.op = "frame"
  /\ Count(last.out, "consumer") = 1
  /\ Len(stack) = 2
  /\ CancelWaiting(1)
  /\ stack[2].t = "callback"
  /\ stack[2].arg.consumer_tag = stack[1].arg.consumer_tag

\* the Basic.Consume methods sent in the step
ConsumeSent(out) == {out[i].method : i \in {j \in DOMAIN out : out[j].e = "send_method" /\ out[j].method.kind = "Basic.Consume"}}

\* a Basic.Deliver went through the async router in the last step
DeliverRouted ==
  /\ last.op = "frame"
  /\ Count(last.out, "async") = 1
  /\ Events(last.out, "async")[1].method.kind = "Basic.Deliver"

\* C14: the tag of every Basic.Consume that is sent is registered when it is sent; a
\* registered tag stays registered until a basic_cancel of it returns from its RPC; and
\* a Basic.Deliver routed for a registered tag calls the callback once with the method
\* and the body and raises nothing, so a delivery for the tag of a basic_consume, at any
\* point after the send and as long as the tag has not been cancelled, finds the callback.
C14_RegisteredBeforeSend ==
  /\ [][\A m \in ConsumeSent(last'.out) : m.consumer_tag \in callbacks']_vars
  /\ [][\A tag \in callbacks \ callbacks' :
          /\ last'.op = "wait_loop"
          /\ last'.method = Method("Basic.Cancel", tag, 0, "local")]_vars
  /\ [][DeliverRouted' =>
          LET a == Events(last'.out, "async")[1] IN
          IF a.method.consumer_tag \in callbacks
          THEN /\ Events(last'.out, "consumer") = <<Ev("consumer", a.method, 0, a.body)>>
               /\ last'.raised = "None"
               /\ Top([stack |-> stack']) = StackFrame("callback", 0, "consumer", a.method, NoMethod)
          ELSE /\ Count(last'.out, "consumer") = 0
               /\ last'.raised = "KeyError"]_vars

\* the wait at stack[i] is a basic_consume waiting for ConsumeOk
ConsumeWaiting(i) ==
  /\ stack[i].t = "wait"
  /\ stack[i].op = "basic_consume"
  /\ stack[i].reply = NoMethod

\* C14 witness: a delivery for the tag of a basic_consume arrived before its ConsumeOk
\* and called the callback
C14_Witness ==
  /\ DeliverRouted
  /\ Count(last.out, "consumer") = 1
  /\ Len(stack) = 2
  /\ ConsumeWaiting(1)
  /\ stack[2].t = "callback"
  /\ stack[2].arg.consumer_tag = stack[1].arg.consumer_tag

\* C15: addStateChangeHandler registers the listener and calls it, and nothing else,
\* once within the call, with isOpen true exactly when the close reason is unset; the
\* step that sets the close reason calls every listener registered so far once with
\* False; no other step calls a listener, so a listener registered on a closed channel
\* is called only by its registration.
C15_ListenerContract ==
  [][IF last'.op = "addStateChangeHandler"
     THEN /\ Len(last'.out) = 1
          /\ \E l \in Listeners :
               /\ last'.out[1] = Ev("listener", NoMethod, IF channel_close = NoMethod THEN 1 ELSE 0, <<l>>)
               /\ handlers' = handlers \cup {l}
          /\ last'.raised = "None"
          /\ channel_close' = channel_close
     ELSE /\ handlers' = handlers
          /\ IF channel_close = NoMethod /\ channel_close' # NoMethod
             THEN /\ ListenerCalls(last'.out) = {<<l, 0>> : l \in handlers}
                  /\ Count(last'.out, "listener") = Cardinality(handlers)
             ELSE Count(last'.out, "listener") = 0]_vars

\* C15 witness: a listener registered on the open channel was called with False when a
\* local close completed
C15_Witness ==
  /\ CloseReturned
  /\ ~last.pre_closed
  /\ channel_close.origin = "local"
  /\ Events(last.out, "listener") = <<Ev("listener", NoMethod, 0, <<"l1">>)>>

\* C16: a dispatched method whose kind is neither in reply_map nor in async_map makes
\* one call of connection.close, with NOT_IMPLEMENTED and the method's kind, and does
\* nothing else: no reply callback, async handler, consumer or listener is called,
\* nothing is sent or raised, and the close reason, the pending replies, the callbacks,
\* the waits in progress and the method-awaiting continuation are as before.
C16_UnknownMethodClosesConnection ==
  [][(/\ last'.op = "frame"
      /\ Count(last'.out, "dispatch") = 1
      /\ reply_map[Events(last'.out, "dispatch")[1].method.kind] = 0
      /\ Events(last'.out, "dispatch")[1].method.kind \notin async_map)
     => LET d == Events(last'.out, "dispatch")[1] IN
        /\ last'.out = <<d, Ev("connection.close", d.method, NOT_IMPLEMENTED, <<>>)>>
        /\ last'.raised = "None"
        /\ channel_close' = channel_close
        /\ reply_map' = reply_map
        /\ callbacks' = callbacks
        /\ stack' = stack
        /\ frame_handler' = HandleMethod]_vars

\* C16 witness: a content-bearing method that nobody awaits was completed by its header
\* while a wait for another kind was in progress
C16_Witness ==
  /\ last.op = "frame"
  /\ last.pre_state = "header"
  /\ Count(last.out, "connection.close") = 1
  /\ Events(last.out, "connection.close")[1].method.kind = "Basic.GetOk"
  /\ stack # <<>>
  /\ reply_map["Basic.GetEmpty"] = 1

\* the kinds registered by a wait that is in progress
Awaited == {k \in Kinds : reply_map[k] \in 1..Len(stack)}

\* C17: every kind registered by a wait in progress belongs to that wait; a
\* wait started for a list holding such a kind raises RecursiveOperationDetected naming
\* the first pending kind of the list and leaves those registrations as they are, also
\* when the callback that started it catches the exception and the first wait goes on; a
\* method of that kind dispatched afterwards is handed to the first wait, and the first
\* wait returns that method when drain_events returns to it.
C17_OverlappingWaits ==
  /\ [](\A k \in Awaited : stack[reply_map[k]].t = "wait" /\ stack[reply_map[k]].id = reply_map[k])
  /\ [][\A kinds \in AcceptableReplies :
          ((Rpc(kinds) \/ RpcCaught(kinds)) /\ channel_close = NoMethod /\ \E i \in DOMAIN kinds : kinds[i] \in Awaited)
          => /\ last'.raised = "RecursiveOperationDetected"
             /\ RpcCaught(kinds) => (stack' = stack /\ \A k \in Awaited : reply_map'[k] = reply_map[k])]_vars
  /\ [][(/\ last'.op = "frame"
          /\ Count(last'.out, "dispatch") = 1
          /\ Events(last'.out, "dispatch")[1].method.kind \in Awaited)
         => LET d == Events(last'.out, "dispatch")[1]
                i == reply_map[d.method.kind]
            IN /\ stack'[i] = [stack[i] EXCEPT !.reply = d.method]
               /\ Count(last'.out, "async") = 0
               /\ last'.raised = "None"]_vars
  /\ [][(WaitLoop /\ Top(Cur).op = "_rpc" /\ Top(Cur).reply # NoMethod)
         => /\ wait_loop(Cur).ret = Top(Cur).reply
            /\ last'.raised = "None"
            /\ stack' = SubSeq(stack, 1, Len(stack) - 1)]_vars

\* C17 witness: a wait for Basic.GetEmpty started in a consumer callback, inside the
\* drain of a wait for Basic.GetEmpty, raised RecursiveOperationDetected; the callback
\* caught it and the first wait is still registered
C17_Witness ==
  /\ last.op = "_rpc"
  /\ last.raised = "RecursiveOperationDetected"
  /\ Len(stack) = 2
  /\ stack[1].t = "wait"
  /\ stack[2].t = "callback"
  /\ reply_map["Basic.GetEmpty"] = 1

\* the frames fed since the last method frame are complete sequences
SequencesComplete == hist = <<>> \/ hist[Len(hist)].dispatched # <<>>

\* C18: a step dispatches at most one triple, and when it does the continuation it
\* leaves, which is the one the reply callback or async handler runs with, is the
\* method-awaiting one, also when the handler raises; with that continuation a frame is
\* handled by its kind alone, whatever waits and callbacks are in progress; a method
\* awaited by the innermost wait, started in a callback, is handed to that wait with its
\* body; only frames change the continuation, neither the return of a wait nor that of
\* a callback does, so that it is method-awaiting when the callback returns, the frames of
\* the nested drains being complete sequences.
C18_DispatchReentrant ==
  /\ [][Count(last'.out, "dispatch") > 0 =>
          /\ Count(last'.out, "dispatch") = 1
          /\ last'.op = "frame"
          /\ frame_handler' = HandleMethod]_vars
  /\ [][(last'.op = "frame" /\ frame_handler = HandleMethod) =>
          IF last'.method = NoMethod
          THEN last'.raised = "UnexpectedFrameError" /\ frame_handler' = HandleMethod
          ELSE IF has_content(last'.method.kind)
          THEN frame_handler' = HeaderHandler(last'.method) /\ last'.out = <<>> /\ last'.raised = "None"
          ELSE frame_handler' = HandleMethod /\ Dispatches([out |-> last'.out]) = <<Ev("dispatch", last'.method, 0, <<>>)>>]_vars
  /\ [][(/\ last'.op = "frame"
          /\ Count(last'.out, "dispatch") = 1
          /\ Len(stack) >= 2
          /\ Top(Cur).t = "wait"
          /\ reply_map[Events(last'.out, "dispatch")[1].method.kind] = Len(stack))
         => LET d == Events(last'.out, "dispatch")[1] IN
            /\ Events(last'.out, "set_reply") = <<Ev("set_reply", d.method, Len(stack), d.body)>>
            /\ stack' = [stack EXCEPT ![Len(stack)].reply = d.method]
            /\ last'.raised = "None"]_vars
  /\ [][last'.op # "frame" => frame_handler' = frame_handler]_vars
  /\ [][(CallbackReturn /\ SequencesComplete) => frame_handler' = HandleMethod]_vars

\* C18 witness: inside a consumer callback dispatched by the last body frame of a
\* delivery, a nested wait received Basic.GetOk completed by its last body frame
C18_Witness ==
  /\ last.op = "frame"
  /\ last.pre_state = "body"
  /\ Len(stack) = 2
  /\ stack[1].t = "callback"
  /\ stack[2].t = "wait"
  /\ stack[2].reply.kind = "Basic.GetOk"
  /\ Events(last.out, "set_reply")[1].body = <<"x", "y">>
  /\ frame_handler = HandleMethod

\* no wait_for_reply call is in progress
NoWaitInProgress == \A i \in 1..Len(stack) : stack[i].t # "wait"

\* C19: when a wait_for_reply call has returned its reply and no wait is in progress,
\* reply_map is empty.
C19_PendingOnlyInFlight ==
  (last.op = "wait_loop" /\ last.raised = "None" /\ NoWaitInProgress) => Pending(reply_map) = {}

\* C20: a basic_consume call that raises ChannelClosed or RecursiveOperationDetected,
\* at once or out of its wait for ConsumeOk, leaves the callbacks as they were before
\* the call: the tag it used is not registered afterwards.
C20_FailedConsumeRollsBack ==
  /\ [][(last'.op = "basic_consume" /\ last'.raised \in {"ChannelClosed", "RecursiveOperationDetected"})
         => callbacks' = callbacks]_vars
  /\ [][(WaitLoop /\ Top(Cur).op = "basic_consume" /\ last'.raised = "ChannelClosed")
         => Top(Cur).arg.consumer_tag \notin callbacks']_vars
====
